---- MODULE Spec2Model ----
(***************************************************************************)
(* Activity checks of autosuspend (src/autosuspend/checks/activity.py):    *)
(* LogindSessionsIdle, NetworkBandwidth, XIdleTime and the create          *)
(* classmethods of the probes.                                             *)
(*                                                                         *)
(* Python strings are sequences of one-character strings, so that prefix   *)
(* matching, colon removal and integer parsing are computed, not assumed.  *)
(* An evaluation's outcome is a record whose kind is "active", "inactive"  *)
(* or "raise"; for "raise", exc names the exception class that leaves      *)
(* check().                                                                *)
(***************************************************************************)
EXTENDS Integers, Sequences, FiniteSets, TLC

VARIABLES
    lprobe,      \* the LogindSessionsIdle instance: _types, _states
    lsessions,   \* what list_logind_sessions() returns: (id, properties) pairs
    lres,        \* outcome of the last LogindSessionsIdle.check() against lsessions
    lprev,       \* outcome of the check() before it, against the same lsessions
    nb,          \* the NetworkBandwidth instance
    netio,       \* psutil.net_io_counters(pernic=True) of the host, now
    now,         \* time.time()
    nlast,       \* the sample (values, time) the most recent check() read
    nres,        \* outcome of the most recent NetworkBandwidth.check()
    nprev,       \* outcome of the check() before it
    nsame,       \* the last two check() calls read the same counters
    nlater,      \* the clock advanced between the last two check() calls
    xprobe,      \* the XIdleTime instance
    xsockets,    \* the sockets glob('/tmp/.X11-unix/X*') lists, with their owners
    xlogind,     \* what list_logind_sessions() returns to XIdleTime
    xprocs,      \* the process table psutil.process_iter() walks
    xhelper,     \* what 'sudo -u <user> xprintidle' does, per user
    xres,        \* outcome of the last XIdleTime.check() against this environment
    xprev,       \* outcome of the check() before it, against the same environment
    ccls,        \* the probe class whose create() was called last
    ccfg,        \* the configuration section it was given
    cres         \* what create() returned or raised

lvars == <<lprobe, lsessions, lres, lprev>>
nvars == <<nb, netio, now, nlast, nres, nprev, nsame, nlater>>
xvars == <<xprobe, xsockets, xlogind, xprocs, xhelper, xres, xprev>>
cvars == <<ccls, ccfg, cres>>
vars  == <<lvars, nvars, xvars, cvars>>

notL == <<nvars, xvars, cvars>>
notN == <<lvars, xvars, cvars>>
notX == <<lvars, nvars, cvars>>
notC == <<lvars, nvars, xvars>>

NoValue == [kind |-> "none"]

----------------------------------------------------------------------------
(* Strings *)

S_tty      == <<"t","t","y">>
S_x11      == <<"x","1","1">>
S_wayland  == <<"w","a","y","l","a","n","d">>
S_mir      == <<"m","i","r">>
S_active   == <<"a","c","t","i","v","e">>
S_online   == <<"o","n","l","i","n","e">>
S_closing  == <<"c","l","o","s","i","n","g">>
S_yes      == <<"y","e","s">>
S_no       == <<"n","o">>

\* x in list
InList(x, list) == \E i \in 1..Len(list) : list[i] = x

----------------------------------------------------------------------------
(* Text: str.strip, str.split, int/float, re.compile, re.match *)

Letters == {"a","b","e","h","l","m","o","p","s","t","v","x","y"}
Digits  == {"0","1","2","3","4","5","6","7","8","9"}

RECURSIVE LStrip(_)
LStrip(s) == IF s # <<>> /\ s[1] = " " THEN LStrip(Tail(s)) ELSE s

RECURSIVE RStrip(_)
RStrip(s) ==
    IF s # <<>> /\ s[Len(s)] = " " THEN RStrip(SubSeq(s, 1, Len(s) - 1)) ELSE s

\* s.strip()
Strip(s) == RStrip(LStrip(s))

\* s.split(','): the pieces between the commas, at least one
RECURSIVE Split(_)
Split(s) ==
    IF \E k \in 1..Len(s) : s[k] = ","
    THEN LET k == CHOOSE j \in 1..Len(s) :
                      s[j] = "," /\ \A h \in 1..(j - 1) : s[h] # ","
         IN <<SubSeq(s, 1, k - 1)>> \o Split(SubSeq(s, k + 1, Len(s)))
    ELSE <<s>>

\* [f.strip() for f in list]
RECURSIVE StripAll(_)
StripAll(list) ==
    IF list = <<>> THEN <<>> ELSE <<Strip(Head(list))>> \o StripAll(Tail(list))

DigitValue(c) ==
    CASE c = "0" -> 0 [] c = "1" -> 1 [] c = "2" -> 2 [] c = "3" -> 3 [] c = "4" -> 4
      [] c = "5" -> 5 [] c = "6" -> 6 [] c = "7" -> 7 [] c = "8" -> 8 [] c = "9" -> 9

RECURSIVE DigitsValue(_)
DigitsValue(s) ==
    IF s = <<>> THEN 0
    ELSE 10 * DigitsValue(SubSeq(s, 1, Len(s) - 1)) + DigitValue(s[Len(s)])

IsDigits(s) == s # <<>> /\ \A i \in 1..Len(s) : s[i] \in Digits

\* int(s) / float(s) on text over the model's alphabet: surrounding blanks
\* are dropped, an optional '-' and a non-empty run of decimal digits parse,
\* anything else is a ValueError
ParseNumber(s) ==
    LET t == Strip(s) IN
    IF IsDigits(t) THEN [ok |-> TRUE, value |-> DigitsValue(t)]
    ELSE IF t # <<>> /\ t[1] = "-" /\ IsDigits(Tail(t))
    THEN [ok |-> TRUE, value |-> 0 - DigitsValue(Tail(t))]
    ELSE [ok |-> FALSE, value |-> 0]

\* re.compile(text) for the patterns of the model: 'a^' (XIdleTime's fallback)
\* matches nothing, '.*' (Users' fallback) matches everything, a run of
\* letters matches itself, anything else is an re.error
R_never == <<"a","^">>
R_any   == <<".","*">>

ReCompile(text) ==
    IF text = R_never THEN [ok |-> TRUE, kind |-> "never", text |-> text]
    ELSE IF text = R_any THEN [ok |-> TRUE, kind |-> "any", text |-> text]
    ELSE IF text # <<>> /\ \A i \in 1..Len(text) : text[i] \in Letters
    THEN [ok |-> TRUE, kind |-> "literal", text |-> text]
    ELSE [ok |-> FALSE, kind |-> "error", text |-> text]

\* pattern.fullmatch(s) is not None
ReFullMatch(pattern, s) ==
    \/ pattern.kind = "any"
    \/ pattern.kind = "literal" /\ s = pattern.text

\* pattern.match(s) is not None: the pattern matches at the start of s
ReMatch(pattern, s) ==
    \/ pattern.kind = "any"
    \/ /\ pattern.kind = "literal"
       /\ Len(s) >= Len(pattern.text)
       /\ SubSeq(s, 1, Len(pattern.text)) = pattern.text

(* A configuration section maps option names to their text *)

\* config[key] raises KeyError for a missing option
HasOption(config, key) == key \in DOMAIN config

\* config.get(key, fallback=...)
GetOption(config, key, fallback) ==
    IF key \in DOMAIN config THEN config[key] ELSE fallback

\* the sections that give each option one of choices[option], Absent meaning
\* that the option is left out
Absent == <<"absent">>

SectionOf(f) == [k \in {o \in DOMAIN f : f[o] # Absent} |-> f[k]]

Sections(choices) ==
    { SectionOf(f) :
        f \in { g \in [DOMAIN choices -> UNION {choices[k] : k \in DOMAIN choices}] :
                  \A k \in DOMAIN choices : g[k] \in choices[k] } }

\* what create() returns or raises
Created(probe) == [kind |-> "instance", exc |-> "", probe |-> probe]
Raised(exc)    == [kind |-> "raise", exc |-> exc, probe |-> NoValue]

----------------------------------------------------------------------------
(* LogindSessionsIdle *)

MaxLSessions == 2

\* properties[key]: a dict lookup raises KeyError for an absent key
HasKey(properties, key) == key \in DOMAIN properties

\* LogindSessionsIdle.check, from session i on. Returns the outcome with
\* at: the index of the session at which check() returned or raised (0 when
\* the loop ran to its end), inspected: the sessions whose IdleHint was read.
RECURSIVE LCheckFrom(_, _, _, _)
LCheckFrom(probe, sessions, i, inspected) ==
    IF i > Len(sessions)
    THEN [kind |-> "inactive", exc |-> "", at |-> 0, inspected |-> inspected]
    ELSE LET properties == sessions[i].properties IN
         IF ~HasKey(properties, "Type")
         THEN [kind |-> "raise", exc |-> "KeyError", at |-> i, inspected |-> inspected]
         ELSE IF ~InList(properties["Type"], probe.types)
         THEN \* the debug call's argument properties['type'] is evaluated first
              IF ~HasKey(properties, "type")
              THEN [kind |-> "raise", exc |-> "KeyError", at |-> i,
                    inspected |-> inspected]
              ELSE LCheckFrom(probe, sessions, i + 1, inspected)
         ELSE IF ~HasKey(properties, "State")
         THEN [kind |-> "raise", exc |-> "KeyError", at |-> i, inspected |-> inspected]
         ELSE IF ~InList(properties["State"], probe.states)
         THEN LCheckFrom(probe, sessions, i + 1, inspected)
         ELSE IF ~HasKey(properties, "IdleHint")
         THEN [kind |-> "raise", exc |-> "KeyError", at |-> i, inspected |-> inspected]
         ELSE IF properties["IdleHint"] = S_no
         THEN [kind |-> "active", exc |-> "", at |-> i,
               inspected |-> inspected \cup {i}]
         ELSE LCheckFrom(probe, sessions, i + 1, inspected \cup {i})

LogindSessionsIdle_check(probe, sessions) == LCheckFrom(probe, sessions, 1, {})

LogindSessionsIdle_init(types, states) == [types |-> types, states |-> states]

\* LogindSessionsIdle.create: comma-separated lists, each entry stripped
T_types  == S_tty \o <<",">> \o S_x11 \o <<",">> \o S_wayland
T_states == S_active \o <<",">> \o S_online

LogindSessionsIdle_create(config) ==
    Created(LogindSessionsIdle_init(
                StripAll(Split(GetOption(config, "types", T_types))),
                StripAll(Split(GetOption(config, "states", T_states)))))

LConfigs ==
    Sections([types  |-> {Absent, S_x11},
              states |-> {Absent, <<" ">> \o S_active}])

\* The property mappings the login manager hands out: logind's property
\* names are capitalised, so no mapping has a key "type".
LProperties ==
    [ {"Type", "State", "IdleHint"} ->
        {S_tty, S_x11, S_mir, S_active, S_closing, S_yes, S_no} ]

LSessionValues ==
    { p \in LProperties :
        /\ p["Type"] \in {S_x11, S_tty, S_mir}
        /\ p["State"] \in {S_active, S_closing}
        /\ p["IdleHint"] \in {S_yes, S_no} }

LInit ==
    /\ lprobe \in { LogindSessionsIdle_create(config).probe : config \in LConfigs }
    /\ lsessions = <<>>
    /\ lres = NoValue
    /\ lprev = NoValue

\* the login manager gains a session
LSessionAdded ==
    /\ lprobe # NoValue
    /\ Len(lsessions) < MaxLSessions
    /\ \E p \in LSessionValues :
         lsessions' = Append(lsessions, [id |-> Len(lsessions) + 1, properties |-> p])
    /\ lres' = NoValue
    /\ lprev' = NoValue
    /\ UNCHANGED <<lprobe, notL>>

\* the login manager's sessions end
LSessionsClosed ==
    /\ lprobe # NoValue
    /\ lsessions # <<>>
    /\ lsessions' = <<>>
    /\ lres' = NoValue
    /\ lprev' = NoValue
    /\ UNCHANGED <<lprobe, notL>>

\* the instance once check() has run: check() assigns no attribute
LogindSessionsIdle_after_check(probe) == probe

LCheck ==
    /\ lprobe # NoValue
    /\ lres' = LogindSessionsIdle_check(lprobe, lsessions)
    /\ lprev' = lres
    /\ lprobe' = LogindSessionsIdle_after_check(lprobe)
    /\ UNCHANGED <<lsessions, notL>>

----------------------------------------------------------------------------
(* NetworkBandwidth *)

MaxBytes == 2
MaxTime  == 3

I_eth0 == <<"e","t","h","0">>
I_eth1 == <<"e","t","h","1">>

\* psutil.net_if_addrs().keys()
Interfaces == {I_eth0}

\* psutil.net_io_counters(pernic=True): the interfaces the host reports, each
\* with its cumulative byte counters.
CounterValues == [bytes_sent : 0..MaxBytes, bytes_recv : 0..MaxBytes]
NetioValues ==
    UNION { [ifs -> CounterValues] : ifs \in SUBSET Interfaces }

\* the samples a probe is constructed on
InitialNetio ==
    { v \in NetioValues :
        \A i \in DOMAIN v : v[i].bytes_sent = v[i].bytes_recv /\ v[i].bytes_sent <= 1 }

\* NetworkBandwidth.__init__: reads the counters and the clock
NetworkBandwidth_init(interfaces, threshold_send, threshold_receive, values, time) ==
    [interfaces        |-> interfaces,
     threshold_send    |-> threshold_send,
     threshold_receive |-> threshold_receive,
     previous_values   |-> values,
     previous_time     |-> time]

\* a rate formed by multiplying by the interval
RateAboveMul(delta, interval, threshold) == delta * interval > threshold

\* delta / interval > threshold, for interval # 0, in exact arithmetic
RateAbove(delta, interval, threshold) ==
    IF interval > 0 THEN delta > threshold * interval
                    ELSE delta < threshold * interval

\* NetworkBandwidth.check, from the k-th configured interface on
RECURSIVE NBCheckFrom(_, _, _, _)
NBCheckFrom(probe, new_values, new_time, k) ==
    IF k > Len(probe.interfaces)
    THEN [kind |-> "inactive", exc |-> "", interface |-> <<>>]
    ELSE LET interface == probe.interfaces[k]
             interval  == new_time - probe.previous_time
         IN
         IF interface \notin DOMAIN new_values
               \/ interface \notin DOMAIN probe.previous_values
         THEN [kind |-> "raise", exc |-> "TemporaryCheckError", interface |-> interface]
         ELSE IF interval = 0
         THEN [kind |-> "raise", exc |-> "ZeroDivisionError", interface |-> interface]
         ELSE IF RateAbove(new_values[interface].bytes_sent
                             - probe.previous_values[interface].bytes_sent,
                           interval, probe.threshold_send)
         THEN [kind |-> "active", exc |-> "", interface |-> interface]
         ELSE IF RateAbove(new_values[interface].bytes_recv
                             - probe.previous_values[interface].bytes_recv,
                           interval, probe.threshold_receive)
         THEN [kind |-> "active", exc |-> "", interface |-> interface]
         ELSE NBCheckFrom(probe, new_values, new_time, k + 1)

NetworkBandwidth_check(probe, new_values, new_time) ==
    NBCheckFrom(probe, new_values, new_time, 1)

\* the instance after check(): check() assigns no attribute of self
NetworkBandwidth_after_check(probe, new_values, new_time) == probe

\* NetworkBandwidth.create's except clauses
NetworkBandwidth_except(exc) ==
    IF exc \in {"KeyError", "ValueError"} THEN "ConfigurationError" ELSE exc

\* [i.strip() for i in interfaces if i.strip()]
RECURSIVE NonEmptyStripped(_)
NonEmptyStripped(list) ==
    IF list = <<>> THEN <<>>
    ELSE IF Strip(Head(list)) = <<>> THEN NonEmptyStripped(Tail(list))
    ELSE <<Strip(Head(list))>> \o NonEmptyStripped(Tail(list))

DefaultThreshold == 100

\* the body of create's try block; values and time are what __init__ reads
NetworkBandwidth_try(config, values, time) ==
    IF ~HasOption(config, "interfaces") THEN Raised("KeyError")
    ELSE
    LET interfaces == NonEmptyStripped(Split(config["interfaces"]))
        threshold_send ==
            IF HasOption(config, "threshold_send")
            THEN ParseNumber(config["threshold_send"])
            ELSE [ok |-> TRUE, value |-> DefaultThreshold]
        threshold_receive ==
            IF HasOption(config, "threshold_receive")
            THEN ParseNumber(config["threshold_receive"])
            ELSE [ok |-> TRUE, value |-> DefaultThreshold]
    IN
    IF interfaces = <<>> THEN Raised("ConfigurationError")
    ELSE IF \E k \in 1..Len(interfaces) : interfaces[k] \notin Interfaces
    THEN Raised("ConfigurationError")
    ELSE IF ~threshold_send.ok THEN Raised("ValueError")
    ELSE IF ~threshold_receive.ok THEN Raised("ValueError")
    ELSE Created(NetworkBandwidth_init(interfaces, threshold_send.value,
                                       threshold_receive.value, values, time))

NetworkBandwidth_create(config, values, time) ==
    LET r == NetworkBandwidth_try(config, values, time) IN
    IF r.kind = "raise" THEN Raised(NetworkBandwidth_except(r.exc)) ELSE r

T_1      == <<"1">>
T_minus1 == <<"-","1">>
T_x      == <<"x">>

NConfigs ==
    Sections([interfaces        |-> {I_eth0, I_eth0 \o <<","," ">> \o I_eth0},
              threshold_send    |-> {T_1, T_minus1},
              threshold_receive |-> {T_1, T_minus1}])

NInit ==
    /\ netio \in InitialNetio
    /\ now = 0
    /\ nb \in { NetworkBandwidth_create(config, netio, now).probe : config \in NConfigs }
    /\ nlast = NoValue /\ nres = NoValue /\ nprev = NoValue
    /\ nsame = FALSE /\ nlater = FALSE

\* the host's counters change: traffic, a counter reset, an interface
\* appearing or disappearing
NTraffic ==
    /\ netio' \in NetioValues \ {netio}
    /\ UNCHANGED <<notN, nb, now, nlast, nres, nprev, nsame, nlater>>

\* the clock advances
NTick ==
    /\ now < MaxTime
    /\ now' = now + 1
    /\ UNCHANGED <<notN, nb, netio, nlast, nres, nprev, nsame, nlater>>

NCheck ==
    /\ nres'  = NetworkBandwidth_check(nb, netio, now)
    /\ nb'    = NetworkBandwidth_after_check(nb, netio, now)
    /\ nprev' = nres
    /\ nlast' = [kind |-> "sample", values |-> netio, time |-> now]
    /\ nsame' = (nlast # NoValue /\ nlast.values = netio)
    /\ nlater' = (nlast # NoValue /\ nlast.time < now)
    /\ UNCHANGED <<notN, netio, now>>

NNext == NTraffic \/ NTick \/ NCheck

----------------------------------------------------------------------------
(* XIdleTime *)

MaxSessions == 2
MaxProcs    == 1

U_bob   == <<"b","o","b">>
U_bobby == <<"b","o","b","b","y">>
P_mpv   == <<"m","p","v">>
P_sh    == <<"s","h">>

Users     == {U_bob, U_bobby}
ProcNames == {P_mpv, P_sh}
NoOwner   == <<>>
\* os.stat raises an OSError that is not a FileNotFoundError (ELOOP for a
\* symbolic link that points to itself)
OwnerOSError == <<"?">>

M_sockets == <<"s","o","c","k","e","t","s">>
M_logind  == <<"l","o","g","i","n","d">>

\* XIdleTime.__init__: an unknown method is a ValueError
XIdleTime_init(timeout, method, ignore_process_re, ignore_users_re) ==
    IF method \notin {M_sockets, M_logind} THEN Raised("ValueError")
    ELSE Created(
           [timeout           |-> timeout,
            provide_sessions  |-> IF method = M_sockets THEN "sockets" ELSE "logind",
            ignore_process_re |-> ignore_process_re,
            ignore_users_re   |-> ignore_users_re])

\* a create() with the re.error clause alone
XIdleTime_except_re_error(exc) ==
    IF exc = "re.error" THEN "ConfigurationError" ELSE exc

\* XIdleTime.create's except clauses
XIdleTime_except(exc) ==
    IF exc \in {"re.error", "ValueError"} THEN "ConfigurationError" ELSE exc

DefaultTimeout == 600

\* the body of create's try block: the arguments are evaluated in order,
\* then the instance is constructed
XIdleTime_try(config) ==
    LET timeout ==
            IF HasOption(config, "timeout") THEN ParseNumber(config["timeout"])
            ELSE [ok |-> TRUE, value |-> DefaultTimeout]
        method            == GetOption(config, "method", M_sockets)
        ignore_process_re == ReCompile(GetOption(config, "ignore_if_process", R_never))
        ignore_users_re   == ReCompile(GetOption(config, "ignore_users", R_never))
    IN
    IF ~timeout.ok THEN Raised("ValueError")
    ELSE IF ~ignore_process_re.ok THEN Raised("re.error")
    ELSE IF ~ignore_users_re.ok THEN Raised("re.error")
    ELSE XIdleTime_init(timeout.value, method, ignore_process_re, ignore_users_re)

XIdleTime_create(config) ==
    LET r == XIdleTime_try(config) IN
    IF r.kind = "raise" THEN Raised(XIdleTime_except(r.exc)) ELSE r

\* what a session lister returns or raises
Listed(sessions) == [kind |-> "return", exc |-> "", sessions |-> sessions]
ListRaised(exc)  == [kind |-> "raise", exc |-> exc, sessions |-> <<>>]

\* _list_sessions_sockets over sockets[i..]: each socket is the text after
\* '/tmp/.X11-unix/X' and the user pwd/stat resolve its owner to. NoOwner:
\* stat raises FileNotFoundError or getpwuid raises KeyError, the two the
\* except clause names; OwnerOSError: stat raises another OSError.
RECURSIVE ListSessionsSocketsFrom(_, _)
ListSessionsSocketsFrom(sockets, i) ==
    IF i > Len(sockets) THEN Listed(<<>>)
    ELSE LET display == ParseNumber(sockets[i].suffix)
             rest    == ListSessionsSocketsFrom(sockets, i + 1)
         IN
         IF ~display.ok THEN rest
         ELSE IF sockets[i].owner = OwnerOSError THEN ListRaised("OSError")
         ELSE IF sockets[i].owner = NoOwner THEN rest
         ELSE IF rest.kind = "raise" THEN rest
         ELSE Listed(<<[display |-> display.value, user |-> sockets[i].owner]>>
                     \o rest.sessions)

list_sessions_sockets(sockets) == ListSessionsSocketsFrom(sockets, 1)

\* text.replace(':', '')
RECURSIVE RemoveColons(_)
RemoveColons(text) ==
    IF text = <<>> THEN <<>>
    ELSE IF text[1] = ":" THEN RemoveColons(Tail(text))
    ELSE <<text[1]>> \o RemoveColons(Tail(text))

\* _list_sessions_logind over sessions[i..]
RECURSIVE ListSessionsLogindFrom(_, _)
ListSessionsLogindFrom(sessions, i) ==
    IF i > Len(sessions) THEN <<>>
    ELSE LET properties == sessions[i].properties
             rest       == ListSessionsLogindFrom(sessions, i + 1)
         IN
         IF HasKey(properties, "Name") /\ HasKey(properties, "Display")
         THEN LET display == ParseNumber(RemoveColons(properties["Display"])) IN
              IF display.ok
              THEN <<[display |-> display.value, user |-> properties["Name"]]>> \o rest
              ELSE rest
         ELSE rest

list_sessions_logind(sessions) == Listed(ListSessionsLogindFrom(sessions, 1))

\* self._provide_sessions()
provide_sessions(probe, sockets, sessions) ==
    IF probe.provide_sessions = "sockets"
    THEN list_sessions_sockets(sockets)
    ELSE list_sessions_logind(sessions)

\* _is_skip_process_running: "True", "False", or the exception that leaves it.
\* user_processes holds names (str); on a match the arguments of the debug
\* call, process.name() and process.pid, are evaluated on that str.
is_skip_process_running(probe, procs, user) ==
    LET user_processes ==
            { p.name : p \in { q \in procs : q.accessible /\ q.username = user } }
    IN
    IF \E process \in user_processes : ReMatch(probe.ignore_process_re, process)
    THEN "AttributeError"
    ELSE "False"

\* a check() without the user rule
IgnoredUserNever(probe, user) == FALSE

\* self._ignore_users_re.match(user) is not None
IgnoredUser(probe, user) == ReMatch(probe.ignore_users_re, user)

\* float(idle_time.strip()) / 1000.0 < self._timeout, the idle time kept in
\* milliseconds: ms / 1000 < timeout iff ms < timeout * 1000
IdleBelowTimeout(idle_ms, timeout) == idle_ms < timeout * 1000

XEnd(kind, exc, at, reason, sessions, enumerated, probed) ==
    [kind |-> kind, exc |-> exc, at |-> at, reason |-> reason,
     sessions |-> sessions, enumerated |-> enumerated, probed |-> probed]

\* XIdleTime.check from session i on. enumerated: the sessions for whose user
\* the process table was walked; probed: the sessions xprintidle was run for;
\* at: the session at which check() returned or raised (0: after the loop).
RECURSIVE XCheckFrom(_, _, _, _, _, _, _)
XCheckFrom(probe, sessions, procs, helper, i, enumerated, probed) ==
    IF i > Len(sessions)
    THEN XEnd("inactive", "", 0, <<>>, sessions, enumerated, probed)
    ELSE LET display == sessions[i].display
             user    == sessions[i].user
         IN
         IF IgnoredUser(probe, user)
         THEN XCheckFrom(probe, sessions, procs, helper, i + 1, enumerated, probed)
         ELSE
         LET skip  == is_skip_process_running(probe, procs, user)
             enum2 == enumerated \cup {i}
         IN
         IF skip = "AttributeError"
         THEN XEnd("raise", "AttributeError", i, <<>>, sessions, enum2, probed)
         ELSE IF skip = "True"
         THEN XCheckFrom(probe, sessions, procs, helper, i + 1, enum2, probed)
         ELSE
         LET run    == helper[user]
             probe2 == probed \cup {i}
         IN
         IF run.kind = "OSError"
         THEN XEnd("raise", "OSError", i, <<>>, sessions, enum2, probe2)
         ELSE IF run.kind = "CalledProcessError"
         THEN XEnd("raise", "TemporaryCheckError", i, <<>>, sessions, enum2, probe2)
         ELSE
         LET idle_time == ParseNumber(run.output) IN
         IF ~idle_time.ok
         THEN XEnd("raise", "TemporaryCheckError", i, <<>>, sessions, enum2, probe2)
         ELSE IF IdleBelowTimeout(idle_time.value, probe.timeout)
         THEN XEnd("active", "", i,
                   <<display, user, idle_time.value, probe.timeout>>,
                   sessions, enum2, probe2)
         ELSE XCheckFrom(probe, sessions, procs, helper, i + 1, enum2, probe2)

\* XIdleTime.check: an exception of the session lister leaves check() before
\* the loop starts (at 0, no session)
XIdleTime_check(probe, sockets, sessions, procs, helper) ==
    LET listed == provide_sessions(probe, sockets, sessions) IN
    IF listed.kind = "raise"
    THEN XEnd("raise", listed.exc, 0, <<>>, <<>>, {}, {})
    ELSE XCheckFrom(probe, listed.sessions, procs, helper, 1, {}, {})

(* The environment of XIdleTime *)

\* the entries of the directory: file names are distinct. The entry the
\* model lets be a link to itself is X1; the owner of Xx is never looked up.
SocketValues ==
    [suffix : {<<"0">>, <<"1">>}, owner : Users \cup {NoOwner}]
      \cup { [suffix |-> <<"1">>, owner |-> OwnerOSError],
             [suffix |-> <<"x">>, owner |-> U_bob] }

\* the Display property of a session: ':0', '' (a session without an X
\* display) and one with a colon that is not in front
D_0     == <<":","0">>
D_empty == <<>>
D_1c0   == <<"1",":","0">>

Displays == {D_0, D_empty, D_1c0}

\* logind sessions as XIdleTime reads them: Name and Display may be missing
XLogindProperties ==
    UNION { [keys -> Users \cup Displays] :
              keys \in SUBSET {"Name", "Display"} }

\* a session of U_bobby has the display ':0'; the displays that are not
\* ':0' come with the user U_bob
XLogindValues ==
    { p \in XLogindProperties :
        /\ HasKey(p, "Name") => p["Name"] \in Users
        /\ HasKey(p, "Display") => p["Display"] \in Displays
        /\ (HasKey(p, "Name") /\ p["Name"] = U_bobby) =>
               (HasKey(p, "Display") /\ p["Display"] = D_0)
        /\ (HasKey(p, "Display") /\ p["Display"] # D_0) =>
               (HasKey(p, "Name") /\ p["Name"] = U_bob) }

\* a process of the table; accessible: username() and name() do not raise
ProcValues ==
    { [username |-> U_bob,   name |-> P_mpv, accessible |-> TRUE],
      [username |-> U_bob,   name |-> P_sh,  accessible |-> TRUE],
      [username |-> U_bobby, name |-> P_mpv, accessible |-> TRUE],
      [username |-> U_bob,   name |-> P_mpv, accessible |-> FALSE] }

\* 'sudo -u user xprintidle': its output, a non-zero exit status
\* (CalledProcessError), or sudo itself cannot be executed (OSError: Popen
\* raises FileNotFoundError or PermissionError)
HelperOutputs ==
    { [kind |-> "output", output |-> o] : o \in { <<"9","9","9">>, <<"1","0","0","0">> } }

HelperFailures ==
    { [kind |-> "output", output |-> <<"x">>],
      [kind |-> "CalledProcessError", output |-> <<>>],
      [kind |-> "OSError", output |-> <<>>] }

\* the runs the model varies are those for U_bob; the display of U_bobby
\* stays in use
HelperValues(user) ==
    IF user = U_bob THEN HelperOutputs \cup HelperFailures
    ELSE { [kind |-> "output", output |-> <<"9","9","9">>] }

\* the sections the probe under evaluation is created from
XConfigs ==
    Sections([timeout           |-> {T_1},
              method            |-> {Absent, M_logind},
              ignore_if_process |-> {Absent, P_mpv},
              ignore_users      |-> {Absent, U_bob, U_bobby}])

XInit ==
    /\ xprobe \in { XIdleTime_create(config).probe : config \in XConfigs }
    /\ xsockets = <<>>
    /\ xlogind = <<>>
    /\ xprocs = {}
    /\ xhelper = [u \in Users |-> [kind |-> "output", output |-> <<"9","9","9">>]]
    /\ xres = NoValue
    /\ xprev = NoValue

\* an X server starts: a socket appears
XSocketAdded ==
    /\ xprobe # NoValue
    /\ xprobe.provide_sessions = "sockets"
    /\ Len(xsockets) < MaxSessions
    /\ \E s \in SocketValues :
         /\ \A i \in 1..Len(xsockets) : xsockets[i].suffix # s.suffix
         /\ xsockets' = Append(xsockets, s)
    /\ xres' = NoValue
    /\ xprev' = NoValue
    /\ UNCHANGED <<xprobe, xlogind, xprocs, xhelper, notX>>

\* a login session starts
XSessionAdded ==
    /\ xprobe # NoValue
    /\ xprobe.provide_sessions = "logind"
    /\ Len(xlogind) < MaxSessions
    /\ \E p \in XLogindValues :
         xlogind' = Append(xlogind, [id |-> Len(xlogind) + 1, properties |-> p])
    /\ xres' = NoValue
    /\ xprev' = NoValue
    /\ UNCHANGED <<xprobe, xsockets, xprocs, xhelper, notX>>

\* all graphical sessions end
XSessionsClosed ==
    /\ xprobe # NoValue
    /\ xsockets # <<>> \/ xlogind # <<>>
    /\ xsockets' = <<>>
    /\ xlogind' = <<>>
    /\ xres' = NoValue
    /\ xprev' = NoValue
    /\ UNCHANGED <<xprobe, xprocs, xhelper, notX>>

\* a process starts or ends
XProcsChanged ==
    /\ xprobe # NoValue
    /\ \E p \in ProcValues :
         \/ p \notin xprocs /\ Cardinality(xprocs) < MaxProcs /\ xprocs' = xprocs \cup {p}
         \/ p \in xprocs /\ xprocs' = xprocs \ {p}
    /\ xres' = NoValue
    /\ xprev' = NoValue
    /\ UNCHANGED <<xprobe, xsockets, xlogind, xhelper, notX>>

\* the idle time of a user's display, or the state of the helper, changes
XHelperChanged ==
    /\ xprobe # NoValue
    /\ \E u \in Users : \E h \in HelperValues(u) :
         /\ xhelper[u] # h
         /\ xhelper' = [xhelper EXCEPT ![u] = h]
    /\ xres' = NoValue
    /\ xprev' = NoValue
    /\ UNCHANGED <<xprobe, xsockets, xlogind, xprocs, notX>>

\* a check() that forgets its timeout
XIdleTime_after_check_timeout(probe) == [probe EXCEPT !.timeout = 0]

\* the instance once check() has run: check(), the session listers and
\* _is_skip_process_running assign no attribute
XIdleTime_after_check(probe) == probe

XCheck ==
    /\ xprobe # NoValue
    /\ xres' = XIdleTime_check(xprobe, xsockets, xlogind, xprocs, xhelper)
    /\ xprev' = xres
    /\ xprobe' = XIdleTime_after_check(xprobe)
    /\ UNCHANGED <<xsockets, xlogind, xprocs, xhelper, notX>>

XNext ==
    \/ XSocketAdded \/ XSessionAdded \/ XSessionsClosed
    \/ XProcsChanged \/ XHelperChanged \/ XCheck

----------------------------------------------------------------------------
(* create() of the probes configured by lists and patterns *)

\* [int(p) for p in ports], or ValueError
PortsParse(list) == \A k \in 1..Len(list) : ParseNumber(list[k]).ok

ActiveConnection_except(exc) ==
    IF exc \in {"KeyError", "ValueError"} THEN "ConfigurationError" ELSE exc

ActiveConnection_create(config) ==
    LET r == IF ~HasOption(config, "ports") THEN Raised("KeyError")
             ELSE LET ports == StripAll(Split(config["ports"])) IN
                  IF ~PortsParse(ports) THEN Raised("ValueError")
                  ELSE Created([ports |-> { ParseNumber(ports[k]).value :
                                             k \in 1..Len(ports) }])
    IN IF r.kind = "raise" THEN Raised(ActiveConnection_except(r.exc)) ELSE r

Ping_except(exc) == IF exc = "KeyError" THEN "ConfigurationError" ELSE exc

Ping_create(config) ==
    LET r == IF ~HasOption(config, "hosts") THEN Raised("KeyError")
             ELSE Created([hosts |-> StripAll(Split(config["hosts"]))])
    IN IF r.kind = "raise" THEN Raised(Ping_except(r.exc)) ELSE r

Processes_except(exc) == IF exc = "KeyError" THEN "ConfigurationError" ELSE exc

Processes_create(config) ==
    LET r == IF ~HasOption(config, "processes") THEN Raised("KeyError")
             ELSE Created([processes |-> StripAll(Split(config["processes"]))])
    IN IF r.kind = "raise" THEN Raised(Processes_except(r.exc)) ELSE r

Users_except(exc) == IF exc = "re.error" THEN "ConfigurationError" ELSE exc

Users_create(config) ==
    LET user_regex     == ReCompile(GetOption(config, "name", R_any))
        terminal_regex == ReCompile(GetOption(config, "terminal", R_any))
        host_regex     == ReCompile(GetOption(config, "host", R_any))
        r == IF ~user_regex.ok \/ ~terminal_regex.ok \/ ~host_regex.ok
             THEN Raised("re.error")
             ELSE Created([user_regex |-> user_regex,
                           terminal_regex |-> terminal_regex,
                           host_regex |-> host_regex])
    IN IF r.kind = "raise" THEN Raised(Users_except(r.exc)) ELSE r

(* The sections create() is called with *)

T_badre == <<"(">>
T_ports == <<"2","2",","," ","8","0">>

XIdleTimeSections ==
    Sections([timeout           |-> {Absent, T_1, T_x},
              method            |-> {Absent, M_sockets, M_logind, T_x},
              ignore_if_process |-> {Absent, P_mpv, T_badre},
              ignore_users      |-> {Absent, U_bob, T_badre}])

NetworkBandwidthSections ==
    Sections([interfaces        |-> {Absent, I_eth0, I_eth0 \o <<",">> \o I_eth1, <<" ">>},
              threshold_send    |-> {Absent, T_1, T_x},
              threshold_receive |-> {Absent, T_minus1, T_x}])

ActiveConnectionSections == Sections([ports |-> {Absent, T_1, T_ports, T_x, <<>>}])
PingSections             == Sections([hosts |-> {Absent, T_x, T_ports}])
ProcessesSections        == Sections([processes |-> {Absent, P_mpv, P_mpv \o <<",">> \o P_sh}])
UsersSections ==
    Sections([name     |-> {Absent, U_bob, T_badre},
              terminal |-> {Absent, S_tty, T_badre},
              host     |-> {Absent, T_badre}])
LogindSessionsIdleSections ==
    Sections([types  |-> {Absent, S_x11, T_x \o <<","," ">> \o S_mir},
              states |-> {Absent, S_active}])

\* the counters and the clock NetworkBandwidth.__init__ reads
CreateNetio == [i \in Interfaces |-> [bytes_sent |-> 0, bytes_recv |-> 0]]

CInit == ccls = "" /\ ccfg = NoValue /\ cres = NoValue

CCreated(cls, config, result) == ccls' = cls /\ ccfg' = config /\ cres' = result

CXIdleTime ==
    /\ \E config \in XIdleTimeSections :
         CCreated("XIdleTime", config, XIdleTime_create(config))
    /\ UNCHANGED notC

CNetworkBandwidth ==
    /\ \E config \in NetworkBandwidthSections :
         CCreated("NetworkBandwidth", config,
                  NetworkBandwidth_create(config, CreateNetio, 0))
    /\ UNCHANGED notC

CActiveConnection ==
    /\ \E config \in ActiveConnectionSections :
         CCreated("ActiveConnection", config, ActiveConnection_create(config))
    /\ UNCHANGED notC

CPing ==
    /\ \E config \in PingSections : CCreated("Ping", config, Ping_create(config))
    /\ UNCHANGED notC

CProcesses ==
    /\ \E config \in ProcessesSections :
         CCreated("Processes", config, Processes_create(config))
    /\ UNCHANGED notC

CUsers ==
    /\ \E config \in UsersSections : CCreated("Users", config, Users_create(config))
    /\ UNCHANGED notC

CLogindSessionsIdle ==
    /\ \E config \in LogindSessionsIdleSections :
         CCreated("LogindSessionsIdle", config, LogindSessionsIdle_create(config))
    /\ UNCHANGED notC

CNext ==
    \/ CXIdleTime \/ CNetworkBandwidth \/ CActiveConnection \/ CPing
    \/ CProcesses \/ CUsers \/ CLogindSessionsIdle

----------------------------------------------------------------------------
(* Specifications: one probe is exercised at a time, the others are absent *)

LIdle == lprobe = NoValue /\ lsessions = <<>> /\ lres = NoValue /\ lprev = NoValue

NIdle ==
    /\ nb = NoValue /\ netio = NoValue /\ now = 0
    /\ nlast = NoValue /\ nres = NoValue /\ nprev = NoValue
    /\ nsame = FALSE /\ nlater = FALSE

XIdle ==
    /\ xprobe = NoValue /\ xsockets = <<>> /\ xlogind = <<>>
    /\ xprocs = {} /\ xhelper = NoValue /\ xres = NoValue /\ xprev = NoValue

LNext == LSessionAdded \/ LSessionsClosed \/ LCheck

InitL == LInit /\ NIdle /\ XIdle /\ CInit
InitN == NInit /\ LIdle /\ XIdle /\ CInit
InitX == XInit /\ LIdle /\ NIdle /\ CInit
InitC == CInit /\ LIdle /\ NIdle /\ XIdle

\* one of the two probes that only read their environment
InitXL == ((XInit /\ LIdle) \/ (LInit /\ XIdle)) /\ NIdle /\ CInit

XLNext == XNext \/ LNext

SpecL == InitL /\ [][LNext]_vars

SpecN == InitN /\ [][NNext]_vars

SpecX == InitX /\ [][XNext]_vars

SpecC == InitC /\ [][CNext]_vars

SpecXL == InitXL /\ [][XLNext]_vars

----------------------------------------------------------------------------
(* Properties of LogindSessionsIdle.check *)

LAllowed(i) ==
    /\ InList(lsessions[i].properties["Type"], lprobe.types)
    /\ InList(lsessions[i].properties["State"], lprobe.states)

\* C2: check() reports active exactly when some session of an allowed type and
\* an allowed state has IdleHint "no"; a session of another type or state is
\* passed over, its IdleHint not inspected, and does not end the evaluation.
C2_ActiveIffAllowedSessionNotIdle ==
    lres # NoValue =>
        /\ lres.kind \in {"active", "inactive"}
        /\ lres.kind = "active" <=>
             \E i \in 1..Len(lsessions) :
                 LAllowed(i) /\ lsessions[i].properties["IdleHint"] = S_no
        /\ \A i \in lres.inspected : LAllowed(i)

----------------------------------------------------------------------------
(* Properties of NetworkBandwidth.check *)

\* C3: after any sequence of check() calls the stored previous sample is the
\* sample the most recent check() read.
C3_PreviousSampleIsLastRead ==
    nlast # NoValue =>
        /\ nb.previous_values = nlast.values
        /\ nb.previous_time = nlast.time

NReturned(r) == r.kind \in {"active", "inactive"}

\* C4 as claimed: two consecutive check() calls that read the same counters
\* return the same result.
C4_SameCountersSameResult ==
    (nsame /\ NReturned(nprev) /\ NReturned(nres)) => nres.kind = nprev.kind

\* C4 as amended: with thresholds >= 0, when two consecutive check() calls read
\* the same counters and the clock did not go back, a check() that returned
\* inactive is followed by one that returns inactive (an active result may
\* turn inactive: the rate is taken over the time since construction).
C4_InactiveStaysInactive ==
    (/\ nsame
     /\ nprev.kind = "inactive"
     /\ nb.threshold_send >= 0
     /\ nb.threshold_receive >= 0) => nres.kind = "inactive"

\* inactive twice on the same counters, which differ from those at
\* construction, with the clock advanced in between
C4_Witness ==
    /\ nsame /\ nlater
    /\ nprev.kind = "inactive" /\ nres.kind = "inactive"
    /\ nb.threshold_send >= 0 /\ nb.threshold_receive >= 0
    /\ nlast.values # nb.previous_values

----------------------------------------------------------------------------
(* Properties of XIdleTime.check *)

XSessions == xres.sessions

\* the user runs an accessible process whose name ignore_if_process matches
XUserRunsIgnoredProcess(user) ==
    \E p \in xprocs :
        p.accessible /\ p.username = user /\ ReMatch(xprobe.ignore_process_re, p.name)

XUserIgnored(user) == ReMatch(xprobe.ignore_users_re, user)

\* check() got as far as session i
XReached(i) == xres.at = 0 \/ i <= xres.at

\* C1: a session whose user runs a process matching ignore_if_process is
\* skipped: xprintidle is not run for it and no error is raised at it.
C1_IgnoredProcessSkipsSession ==
    xres # NoValue =>
        \A i \in 1..Len(XSessions) :
            XUserRunsIgnoredProcess(XSessions[i].user) =>
                /\ i \notin xres.probed
                /\ ~(xres.kind = "raise" /\ xres.at = i)

\* C5: an evaluation ends with a result, a TemporaryCheckError or a
\* SevereCheckError, and nothing else.
FourOutcomes(r) ==
    r # NoValue =>
        \/ r.kind \in {"active", "inactive"}
        \/ r.kind = "raise" /\ r.exc \in {"TemporaryCheckError", "SevereCheckError"}

C5_OnlyCheckErrors == FourOutcomes(lres) /\ FourOutcomes(xres) /\ FourOutcomes(nres)

XHelperParses(user) ==
    xhelper[user].kind = "output" /\ ParseNumber(xhelper[user].output).ok

XExcluded(i) ==
    XUserIgnored(XSessions[i].user) \/ XUserRunsIgnoredProcess(XSessions[i].user)

XBelow(i) ==
    /\ ~XExcluded(i)
    /\ ParseNumber(xhelper[XSessions[i].user].output).value < xprobe.timeout * 1000

\* C6: when every helper run yields a number, check() returns active for the
\* first non-excluded session with idle time below the timeout, naming its
\* display, user, idle time and the threshold, and probes no session after
\* it; with no such session it returns inactive.
C6_FirstActiveSessionDecides ==
    (xres # NoValue /\ \A u \in Users : XHelperParses(u)) =>
        IF \E i \in 1..Len(XSessions) : XBelow(i)
        THEN LET first == CHOOSE i \in 1..Len(XSessions) :
                              XBelow(i) /\ \A j \in 1..(i - 1) : ~XBelow(j)
             IN /\ xres.kind = "active"
                /\ xres.at = first
                /\ xres.reason =
                     <<XSessions[first].display, XSessions[first].user,
                       ParseNumber(xhelper[XSessions[first].user].output).value,
                       xprobe.timeout>>
                /\ \A j \in xres.probed : j <= first
        ELSE xres.kind = "inactive"

\* C7: for a session whose user ignore_users matches, the process table is
\* not walked and xprintidle is not run, and check() neither returns active
\* nor raises at that session.
C7_IgnoredUserNeverProbed ==
    xres # NoValue =>
        \A i \in 1..Len(XSessions) :
            XUserIgnored(XSessions[i].user) =>
                /\ i \notin xres.enumerated
                /\ i \notin xres.probed
                /\ xres.at # i

\* an ignored user whose display is not idle (or whose helper fails) comes
\* before a session that is probed
C7_Witness ==
    /\ xres # NoValue
    /\ \E i, j \in 1..Len(XSessions) :
         /\ i < j
         /\ XUserIgnored(XSessions[i].user)
         /\ xhelper[XSessions[i].user].output = <<"9","9","9">>
         /\ j \in xres.probed

\* C8: a session is skipped by the user rule if and only if ignore_users
\* matches its whole user name; otherwise it goes on to the process rule.
C8_UserExclusionIsFullMatch ==
    xres # NoValue =>
        \A i \in 1..Len(XSessions) :
            XReached(i) =>
                (i \in xres.enumerated <=>
                    ~ReFullMatch(xprobe.ignore_users_re, XSessions[i].user))

XHelperFails(user) ==
    \/ xhelper[user].kind \in {"OSError", "CalledProcessError"}
    \/ xhelper[user].kind = "output" /\ ~ParseNumber(xhelper[user].output).ok

\* C9: when the helper cannot be run, exits with failure or prints no number
\* for a session that is reached, check() raises TemporaryCheckError there
\* and probes no later session.
C9_HelperFailureIsTemporaryError ==
    xres # NoValue =>
        \A i \in xres.probed :
            XHelperFails(XSessions[i].user) =>
                /\ xres.kind = "raise"
                /\ xres.exc = "TemporaryCheckError"
                /\ xres.at = i
                /\ \A j \in xres.probed : j <= i

----------------------------------------------------------------------------
(* Properties of create *)

RequiredOptions(cls) ==
    CASE cls = "ActiveConnection" -> {"ports"}
      [] cls = "NetworkBandwidth" -> {"interfaces"}
      [] cls = "Ping"             -> {"hosts"}
      [] cls = "Processes"        -> {"processes"}
      [] OTHER                    -> {}

NumberOptions(cls) ==
    CASE cls = "ActiveConnection" -> {"ports"}
      [] cls = "NetworkBandwidth" -> {"threshold_send", "threshold_receive"}
      [] cls = "XIdleTime"        -> {"timeout"}
      [] OTHER                    -> {}

PatternOptions(cls) ==
    CASE cls = "XIdleTime" -> {"ignore_if_process", "ignore_users"}
      [] cls = "Users"     -> {"name", "terminal", "host"}
      [] OTHER             -> {}

CInvalid ==
    \/ \E o \in RequiredOptions(ccls) : ~HasOption(ccfg, o)
    \/ \E o \in NumberOptions(ccls) : HasOption(ccfg, o) /\ ccfg[o] \in {T_x, <<>>}
    \/ \E o \in PatternOptions(ccls) : HasOption(ccfg, o) /\ ccfg[o] = T_badre
    \/ /\ ccls = "XIdleTime"
       /\ HasOption(ccfg, "method")
       /\ ccfg["method"] \notin {M_sockets, M_logind}

\* C10: create() either returns an instance or raises ConfigurationError and
\* returns none; it raises for a missing required option, a number that does
\* not parse, an invalid regular expression and an unknown XIdleTime method.
C10_CreateReturnsOrConfigurationError ==
    cres # NoValue =>
        /\ \/ cres.kind = "instance" /\ cres.probe # NoValue
           \/ cres.kind = "raise" /\ cres.exc = "ConfigurationError"
                /\ cres.probe = NoValue
        /\ CInvalid => cres.kind = "raise"
        /\ (ccls = "XIdleTime" /\ cres.kind = "instance") =>
               cres.probe.provide_sessions \in {"sockets", "logind"}

\* XIdleTime.create with an unknown method and every other option valid
C10_Witness ==
    /\ ccls = "XIdleTime"
    /\ DOMAIN ccfg = {"timeout", "method", "ignore_if_process", "ignore_users"}
    /\ ccfg["method"] = T_x /\ ccfg["timeout"] = T_1
    /\ ccfg["ignore_if_process"] = P_mpv /\ ccfg["ignore_users"] = U_bob
    /\ cres.kind = "raise"

----------------------------------------------------------------------------
(* Properties of the session listers *)

\* the text after '/tmp/.X11-unix/X' is an integer
SocketParses(sock) == ParseNumber(sock.suffix).ok

\* the entry has an owner and the owner has a user name
SocketOwnerResolves(sock) == sock.owner \in Users

\* the entries of the directory that name a display of a known user
SocketsOfUsers(sockets) ==
    SelectSeq(sockets, LAMBDA sock : SocketParses(sock) /\ SocketOwnerResolves(sock))

SocketPairs(sockets) ==
    [k \in 1..Len(SocketsOfUsers(sockets)) |->
        [display |-> ParseNumber(SocketsOfUsers(sockets)[k].suffix).value,
         user    |-> SocketsOfUsers(sockets)[k].owner]]

\* the session lister raised: check() was left before its loop
XListerRaised == xres.kind = "raise" /\ xres.at = 0

\* C11: _list_sessions_sockets returns, in enumeration order, one
\* (display, user) pair for each entry whose suffix is an integer and whose
\* owner resolves to a user name; every other entry is skipped, and no entry
\* makes the lister raise.
C11_SocketScanSkipsBadEntries ==
    (xres # NoValue /\ xprobe.provide_sessions = "sockets") =>
        /\ ~XListerRaised
        /\ XSessions = SocketPairs(xsockets)

\* text with one colon in front of it taken away
StripLeadingColon(text) ==
    IF text # <<>> /\ text[1] = ":" THEN Tail(text) ELSE text

\* the session exposes a user name and a display that is an integer once a
\* leading colon is stripped
LogindSessionListed(session) ==
    /\ HasKey(session.properties, "Name")
    /\ HasKey(session.properties, "Display")
    /\ ParseNumber(StripLeadingColon(session.properties["Display"])).ok

LogindSessionsOfUsers(sessions) == SelectSeq(sessions, LogindSessionListed)

LogindPairs(sessions) ==
    [k \in 1..Len(LogindSessionsOfUsers(sessions)) |->
        [display |-> ParseNumber(StripLeadingColon(
                         LogindSessionsOfUsers(sessions)[k].properties["Display"])).value,
         user    |-> LogindSessionsOfUsers(sessions)[k].properties["Name"]]]

\* C12: _list_sessions_logind returns, in the lister's order, the sessions
\* that have a Name and a Display whose text after a leading colon is an
\* integer, with that integer as display; every other session is dropped and
\* none makes the lister raise.
C12_LogindListsParsableDisplays ==
    (xres # NoValue /\ xprobe.provide_sessions = "logind") =>
        /\ ~XListerRaised
        /\ XSessions = LogindPairs(xlogind)

----------------------------------------------------------------------------
(* Properties of the probes that only read their environment *)

\* the last two evaluations, made against the same environment, ended alike
SameOutcomeTwice ==
    /\ xprev # NoValue => xres = xprev
    /\ lprev # NoValue => lres = lprev

\* a step leaves the attributes of the instances as construction set them
ProbesKept == xprobe' = xprobe /\ lprobe' = lprobe

====
